---- MODULE Spec2Model ----
(***************************************************************************)
(* GPAx: the SGPA/YGPA to percentage calculator of main.js.                *)
(*                                                                         *)
(* Numbers.  Every number the calculator handles is a decimal fraction, so *)
(* a number is the record [m, e] standing for m / 10^e, kept normalised    *)
(* (no trailing zero in m while e > 0); NaN is the record with e = -1.     *)
(* The arithmetic is exact decimal arithmetic: IEEE-754 rounding of the    *)
(* last bit is not modelled.                                               *)
(*                                                                         *)
(* Texts.  The value of an input field is a sequence of one-character      *)
(* strings.  Texts a handler writes with toFixed(2) are display records:   *)
(* a two-decimal numeral is given by its count of hundredths.              *)
(***************************************************************************)
EXTENDS Integers, Sequences, FiniteSets, TLC

VARIABLES
    sgpaInput,        \* value of #sgpa-input
    sgpaOdd,          \* value of #sgpa-odd
    sgpaEven,         \* value of #sgpa-even
    sgpaPercentage,   \* textContent of #sgpa-percentage
    sgpaError,        \* #sgpa-error carries the class 'show'
    ygpaValue,        \* textContent of #ygpa-value
    ygpaPercentage,   \* textContent of #ygpa-percentage
    oddError,         \* #odd-error carries the class 'show'
    evenError,        \* #even-error carries the class 'show'
    rotationSpeed,    \* let rotationSpeed
    scaleMultiplier,  \* let scaleMultiplier
    hueShift,         \* ygpa / 10, the hue the spheres' colours are shifted by
    activePage,       \* the page carrying the class 'active'
    results,          \* the elements of the results page
    views,            \* how many times the results page has been shown
    callArg,          \* argument of a direct call of a function
    callRet,          \* what the direct call returned
    pc,               \* the handler on the call stack, "idle" when the stack is empty
    frame             \* what the last call of animate gave the spheres

live    == <<sgpaPercentage, sgpaError, ygpaValue, ygpaPercentage, oddError, evenError>>
fields  == <<sgpaInput, sgpaOdd, sgpaEven>>
anim    == <<rotationSpeed, scaleMultiplier>>
scene   == <<rotationSpeed, scaleMultiplier, hueShift>>
pageVars == <<activePage, results, views>>
callVars == <<callArg, callRet>>
loopVars == <<pc, frame>>
vars    == <<sgpaInput, sgpaOdd, sgpaEven, sgpaPercentage, sgpaError, ygpaValue,
             ygpaPercentage, oddError, evenError, rotationSpeed, scaleMultiplier, hueShift,
             activePage, results, views, callArg, callRet, pc, frame>>

(***************************************************************************)
(* Bounds                                                                  *)
(***************************************************************************)
\* longest raw text handed to isValidGPA in a direct call
MaxLen == 5
\* longest text typed into a field of the page
FieldLen == 2
\* decimals of the grade-points handed to the conversion functions
GridDecimals == 1
\* visits of the results page that are followed
MaxResultViews == 1
\* longest text the two term fields hold when the page is compared with the
\* results page
TermLen == 3

\* characters of a raw text: digits, the decimal point, the sign, a letter
Alphabet == {"0", "1", "7", ".", "-", "a"}
\* keys typed into the fields of the page: they spell in-range numerals (1, 9),
\* out-of-range ones (11, 19, ...), text that is no number (a) and numerals
\* followed by other characters (1a, 9a)
FieldKeys == {"1", "9", "a"}

\* characters of the term texts compared: digits and the decimal point
TermKeys == {"0", "1", "9", "."}

Strings(chars, n) == UNION {[1..k -> chars] : k \in 0..n}
RawTexts   == Strings(Alphabet, MaxLen)
FieldTexts == Strings(FieldKeys, FieldLen)
TermTexts  == Strings(TermKeys, TermLen)

\* the texts one edit of text t leaves in a field: a key typed at the end, or the
\* last character deleted
Edits(t) == {Append(t, c) : c \in IF Len(t) < FieldLen THEN FieldKeys ELSE {}}
            \cup (IF Len(t) > 0 THEN {SubSeq(t, 1, Len(t) - 1)} ELSE {})

(***************************************************************************)
(* Decimal numbers                                                         *)
(***************************************************************************)
NaN == [m |-> 0, e |-> -1]
isNaN(x) == x.e < 0

RECURSIVE Norm(_)
Norm(x) == IF x.e > 0 /\ x.m % 10 = 0
           THEN Norm([m |-> x.m \div 10, e |-> x.e - 1])
           ELSE x

Dec(m, e) == Norm([m |-> m, e |-> e])
Whole(n) == [m |-> n, e |-> 0]
Max(a, b) == IF a >= b THEN a ELSE b
Abs(n) == IF n < 0 THEN -n ELSE n
\* the mantissa of x at exponent e >= x.e
At(x, e) == x.m * 10^(e - x.e)

Add(x, y) == IF isNaN(x) \/ isNaN(y) THEN NaN
             ELSE LET e == Max(x.e, y.e) IN Dec(At(x, e) + At(y, e), e)
Sub(x, y) == IF isNaN(x) \/ isNaN(y) THEN NaN
             ELSE LET e == Max(x.e, y.e) IN Dec(At(x, e) - At(y, e), e)
Mul(x, k) == IF isNaN(x) THEN NaN ELSE Dec(x.m * k, x.e)
\* x / d for the divisors of the program: 2, 10, 200 and 1000
Div(x, d) == IF isNaN(x) THEN NaN
             ELSE CASE d = 2    -> Dec(x.m * 5, x.e + 1)
                    [] d = 10   -> Dec(x.m, x.e + 1)
                    [] d = 200  -> Dec(x.m * 5, x.e + 3)
                    [] d = 1000 -> Dec(x.m, x.e + 3)
\* x >= y and x <= y of JavaScript: false when either side is NaN
Geq(x, y) == ~isNaN(x) /\ ~isNaN(y) /\
             LET e == Max(x.e, y.e) IN At(x, e) >= At(y, e)
Leq(x, y) == Geq(y, x)

(***************************************************************************)
(* parseFloat, Number and toFixed                                          *)
(***************************************************************************)
Digits == {"0", "1", "2", "3", "4", "5", "6", "7", "8", "9"}
DigitVal(c) == CASE c = "0" -> 0 [] c = "1" -> 1 [] c = "2" -> 2 [] c = "3" -> 3
                 [] c = "4" -> 4 [] c = "5" -> 5 [] c = "6" -> 6 [] c = "7" -> 7
                 [] c = "8" -> 8 [] c = "9" -> 9

\* how many digits text t holds from position i on
RECURSIVE DigitRun(_, _)
DigitRun(t, i) == IF i <= Len(t) /\ t[i] \in Digits THEN 1 + DigitRun(t, i + 1) ELSE 0

\* the number spelled by the digits t[i], ..., t[i + n - 1], after the digits acc
RECURSIVE DigitsValue(_, _, _, _)
DigitsValue(t, i, n, acc) ==
    IF n = 0 THEN acc ELSE DigitsValue(t, i + 1, n - 1, acc * 10 + DigitVal(t[i]))

\* The longest prefix of t that is a decimal literal: an optional sign, digits, an
\* optional point, digits, with a digit somewhere. used = 0 when there is none.
\* (Leading blanks, '+', exponents and 'Infinity' take characters no text of the
\* model holds.)
Literal(t) ==
    LET s    == IF Len(t) >= 1 /\ t[1] = "-" THEN 1 ELSE 0
        ni   == DigitRun(t, s + 1)
        dot  == s + ni + 1 <= Len(t) /\ t[s + ni + 1] = "."
        nf   == IF dot THEN DigitRun(t, s + ni + 2) ELSE 0
        mag  == DigitsValue(t, s + ni + 2, nf, DigitsValue(t, s + 1, ni, 0))
    IN  IF ni + nf = 0
        THEN [used |-> 0, value |-> NaN]
        ELSE [used  |-> s + ni + (IF dot THEN 1 + nf ELSE 0),
              value |-> Dec(IF s = 1 THEN -mag ELSE mag, nf)]

\* parseFloat(t): the number of the longest literal prefix, NaN when there is none
parseFloat(t) == Literal(t).value

\* Number(t), the conversion the operator '-' applies to a text: the whole text
\* has to be the literal; the empty text is 0
ToNumber(t) == IF Len(t) = 0 THEN Whole(0)
               ELSE IF Literal(t).used = Len(t) THEN Literal(t).value ELSE NaN

\* texts written to the page
Placeholder == [kind |-> "placeholder", centi |-> 0]
NaNText     == [kind |-> "NaN", centi |-> 0]
Fixed(c)    == [kind |-> "fixed", centi |-> c]

\* x.toFixed(2): x rounded to hundredths, a tie away from zero
toFixed2(x) ==
    IF isNaN(x) THEN NaNText
    ELSE IF x.e <= 2 THEN Fixed(At(x, 2))
    ELSE LET q == 10^(x.e - 2)
             a == Abs(x.m)
             r == (a \div q) + (IF 2 * (a % q) >= q THEN 1 ELSE 0)
         IN  Fixed(IF x.m < 0 THEN -r ELSE r)

\* the number a text written by toFixed(2) reads back as (parseFloat and Number)
FixedValue(d) == IF d.kind = "fixed" THEN Dec(d.centi, 2) ELSE NaN

(***************************************************************************)
(* Conversion formulas                                                     *)
(***************************************************************************)
\* sgpaToPercentage with its result clamped at 0
sgpaToPercentage_clamped(sgpa) ==
    LET p == Mul(Sub(sgpa, Dec(75, 2)), 10) IN IF Geq(p, Whole(0)) THEN p ELSE Whole(0)

sgpaToPercentage(sgpa) == Mul(Sub(sgpa, Dec(75, 2)), 10)

\* calculateYGPA without its parentheses: odd + even / 2
calculateYGPA_precedence(odd, even) == Add(odd, Div(even, 2))

calculateYGPA(odd, even) == Div(Add(odd, even), 2)

ygpaToPercentage(ygpa) == Mul(Sub(ygpa, Dec(75, 2)), 10)

isValidGPA(value) ==
    LET num == parseFloat(value)
    IN  ~isNaN(num) /\ Geq(num, Whole(0)) /\ Leq(num, Whole(10))

\* rotationSpeed = 0.005 + (percentage / 1000)
RotationFor(percentage) == Add(Dec(5, 3), Div(percentage, 1000))
\* ScaleFor with the divisor of the rotation speed
ScaleFor_div1000(percentage) == Add(Dec(8, 1), Div(percentage, 1000))

\* scaleMultiplier = 0.8 + (percentage / 200)
ScaleFor(percentage) == Add(Dec(8, 1), Div(percentage, 200))

(***************************************************************************)
(* The state after the script has loaded.  The texts the page's markup     *)
(* gives its elements are those of the Empty state.                        *)
(***************************************************************************)
NoCongratulations == [message |-> "", score |-> Placeholder]

ResultsBlank ==
    [sgpa             |-> Placeholder,
     sgpaPercent      |-> Placeholder,
     ygpa             |-> Placeholder,
     ygpaPercent      |-> Placeholder,
     barWidth         |-> Whole(0),
     congratulations  |-> NoCongratulations,
     performanceText  |-> "Ready to calculate...",
     performanceColor |-> "stylesheet"]

NotCalled == [fn |-> "none", val |-> 0]

\* What one call of animate gives every sphere from the two parameters it reads:
\* the step its angle advances by and the radius of its orbit.
FrameOf(rotation, scale) == [angleStep |-> rotation, radius |-> Mul(scale, 4)]

PageInit ==
    /\ sgpaInput = <<>> /\ sgpaOdd = <<>> /\ sgpaEven = <<>>
    /\ sgpaPercentage = Placeholder /\ sgpaError = FALSE
    /\ ygpaValue = Placeholder /\ ygpaPercentage = Placeholder
    /\ oddError = FALSE /\ evenError = FALSE
    /\ rotationSpeed = Dec(5, 3)
    /\ scaleMultiplier = Whole(1)
    /\ hueShift = Whole(0)
    /\ activePage = "sgpa"
    /\ results = ResultsBlank
    /\ views = 0
    /\ pc = "idle"
    \* animate() is called once as the script loads
    /\ frame = FrameOf(Dec(5, 3), Whole(1))

Init == PageInit /\ callArg = <<>> /\ callRet = NotCalled

(***************************************************************************)
(* SGPA to percentage calculator                                           *)
(***************************************************************************)
\* updateSGPACalculation whose branch for the empty text leaves the error as it is
updateSGPACalculation_stickyError(sgpa) ==
    IF Len(sgpa) = 0
    THEN /\ sgpaPercentage' = Placeholder
         /\ UNCHANGED sgpaError
         /\ UNCHANGED anim
    ELSE IF ~isValidGPA(sgpa)
    THEN /\ sgpaError' = TRUE
         /\ sgpaPercentage' = Placeholder
         /\ UNCHANGED anim
    ELSE LET percentage == sgpaToPercentage(parseFloat(sgpa))
         IN  /\ sgpaError' = FALSE
             /\ sgpaPercentage' = toFixed2(percentage)
             /\ rotationSpeed' = RotationFor(percentage)
             /\ scaleMultiplier' = ScaleFor(percentage)

\* the handler of the field's input event; sgpa is sgpaInput.value
updateSGPACalculation(sgpa) ==
    IF Len(sgpa) = 0
    THEN /\ sgpaPercentage' = Placeholder
         /\ sgpaError' = FALSE
         /\ UNCHANGED anim
    ELSE IF ~isValidGPA(sgpa)
    THEN /\ sgpaError' = TRUE
         /\ sgpaPercentage' = Placeholder
         /\ UNCHANGED anim
    ELSE LET percentage == sgpaToPercentage(parseFloat(sgpa))
         IN  /\ sgpaError' = FALSE
             /\ sgpaPercentage' = toFixed2(percentage)
             /\ rotationSpeed' = RotationFor(percentage)
             /\ scaleMultiplier' = ScaleFor(percentage)

\* a text-change event of #sgpa-input
SgpaInputEvent ==
    \E t \in Edits(sgpaInput) :
        /\ sgpaInput' = t
        /\ updateSGPACalculation(t)
        /\ UNCHANGED <<sgpaOdd, sgpaEven, ygpaValue, ygpaPercentage, oddError,
                       evenError, hueShift, pageVars, callVars, loopVars>>

(***************************************************************************)
(* YGPA calculator                                                         *)
(***************************************************************************)
\* if (odd && !isValidGPA(odd)): the field's own error indicator
OddHasError(odd, even) == Len(odd) > 0 /\ ~isValidGPA(odd)
EvenHasError(odd, even) == Len(even) > 0 /\ ~isValidGPA(even)

\* if (!odd || !even || hasError): no yearly figure is computed
YearlyAbsent(odd, even) ==
    Len(odd) = 0 \/ Len(even) = 0 \/ OddHasError(odd, even) \/ EvenHasError(odd, even)

\* updateYGPACalculation resetting the animation when no yearly figure is computed
updateYGPACalculation_resets(odd, even) ==
    /\ oddError' = OddHasError(odd, even)
    /\ evenError' = EvenHasError(odd, even)
    /\ IF YearlyAbsent(odd, even)
       THEN /\ ygpaValue' = Placeholder
            /\ ygpaPercentage' = Placeholder
            /\ rotationSpeed' = Dec(5, 3)
            /\ scaleMultiplier' = Whole(1)
            /\ UNCHANGED hueShift
       ELSE LET ygpa == calculateYGPA(parseFloat(odd), parseFloat(even))
                percentage == ygpaToPercentage(ygpa)
            IN  /\ ygpaValue' = toFixed2(ygpa)
                /\ ygpaPercentage' = toFixed2(percentage)
                /\ rotationSpeed' = RotationFor(percentage)
                /\ scaleMultiplier' = ScaleFor(percentage)
                /\ hueShift' = Div(ygpa, 10)

\* the handler of both fields' input events
updateYGPACalculation(odd, even) ==
    /\ oddError' = OddHasError(odd, even)
    /\ evenError' = EvenHasError(odd, even)
    /\ IF YearlyAbsent(odd, even)
       THEN /\ ygpaValue' = Placeholder
            /\ ygpaPercentage' = Placeholder
            /\ UNCHANGED scene
       ELSE LET ygpa == calculateYGPA(parseFloat(odd), parseFloat(even))
                percentage == ygpaToPercentage(ygpa)
            IN  /\ ygpaValue' = toFixed2(ygpa)
                /\ ygpaPercentage' = toFixed2(percentage)
                /\ rotationSpeed' = RotationFor(percentage)
                /\ scaleMultiplier' = ScaleFor(percentage)
                /\ hueShift' = Div(ygpa, 10)

\* a text-change event of #sgpa-odd
OddInputEvent ==
    \E t \in Edits(sgpaOdd) :
        /\ sgpaOdd' = t
        /\ updateYGPACalculation(t, sgpaEven)
        /\ UNCHANGED <<sgpaInput, sgpaEven, sgpaPercentage, sgpaError, pageVars, callVars, loopVars>>

\* a text-change event of #sgpa-even
EvenInputEvent ==
    \E t \in Edits(sgpaEven) :
        /\ sgpaEven' = t
        /\ updateYGPACalculation(sgpaOdd, t)
        /\ UNCHANGED <<sgpaInput, sgpaOdd, sgpaPercentage, sgpaError, pageVars, callVars, loopVars>>

(***************************************************************************)
(* The page of the script without navigation: its three fields, each with  *)
(* its listener                                                            *)
(***************************************************************************)
Next == SgpaInputEvent \/ OddInputEvent \/ EvenInputEvent

Spec == Init /\ [][Next]_vars

(***************************************************************************)
(* Page navigation and the results page                                    *)
(***************************************************************************)
Pages == {"sgpa", "ygpa", "results"}

\* what showCongratulations(percentage) leaves in #congratulations-container
showCongratulations(percentage) ==
    IF Geq(percentage, Whole(90))
    THEN [message |-> "Outstanding Performance!", score |-> toFixed2(percentage)]
    ELSE IF Geq(percentage, Whole(80))
    THEN [message |-> "Excellent Work!", score |-> toFixed2(percentage)]
    ELSE IF Geq(percentage, Whole(70))
    THEN [message |-> "Great Job!", score |-> toFixed2(percentage)]
    ELSE IF Geq(percentage, Whole(60))
    THEN [message |-> "Good Effort! Keep Improving", score |-> toFixed2(percentage)]
    ELSE NoCongratulations

\* updatePerformanceText with 'more than 80' for 'at least 80'
updatePerformanceText_strict(percentage) ==
    IF Geq(percentage, Whole(90))
    THEN [text |-> "Outstanding - Exceptional performance!", color |-> "#00f5ff"]
    ELSE IF Geq(percentage, Whole(80)) /\ percentage # Whole(80)
    THEN [text |-> "Excellent - Keep it up!", color |-> "#7eb3ff"]
    ELSE IF Geq(percentage, Whole(70))
    THEN [text |-> "Good - On the right track!", color |-> "#a8e6cf"]
    ELSE IF Geq(percentage, Whole(60))
    THEN [text |-> "Satisfactory - Room for improvement!", color |-> "#ffd93d"]
    ELSE [text |-> "Keep pushing forward!", color |-> "#ff6b6b"]

\* what updatePerformanceText(percentage) leaves in #performance-text
updatePerformanceText(percentage) ==
    IF Geq(percentage, Whole(90))
    THEN [text |-> "Outstanding - Exceptional performance!", color |-> "#00f5ff"]
    ELSE IF Geq(percentage, Whole(80))
    THEN [text |-> "Excellent - Keep it up!", color |-> "#7eb3ff"]
    ELSE IF Geq(percentage, Whole(70))
    THEN [text |-> "Good - On the right track!", color |-> "#a8e6cf"]
    ELSE IF Geq(percentage, Whole(60))
    THEN [text |-> "Satisfactory - Room for improvement!", color |-> "#ffd93d"]
    ELSE [text |-> "Keep pushing forward!", color |-> "#ff6b6b"]

\* Math.min(percentage, 100), NaN when percentage is
MinWith100(percentage) ==
    IF isNaN(percentage) THEN NaN
    ELSE IF Leq(percentage, Whole(100)) THEN percentage ELSE Whole(100)

\* the SGPA half of updateResultsPage: if (sgpaValue) { ... } else { ... }
ResultsSgpa(sgpaValue) ==
    IF Len(sgpaValue) > 0
    THEN [sgpa        |-> toFixed2(parseFloat(sgpaValue)),
          sgpaPercent |-> toFixed2(Mul(Sub(ToNumber(sgpaValue), Dec(75, 2)), 10))]
    ELSE [sgpa |-> Placeholder, sgpaPercent |-> Placeholder]

\* the YGPA half of updateResultsPage: if (oddValue && evenValue) { ... } else { ... }
\* A width of 'NaN%' is no CSS value: the assignment leaves the bar as it was.
\* The else branch leaves the colour of #performance-text as it was.
ResultsYgpa(oddValue, evenValue, before) ==
    IF Len(oddValue) > 0 /\ Len(evenValue) > 0
    THEN LET ygpa == toFixed2(Div(Add(parseFloat(oddValue), parseFloat(evenValue)), 2))
             ygpaPercent == toFixed2(Mul(Sub(FixedValue(ygpa), Dec(75, 2)), 10))
             performancePercent == MinWith100(FixedValue(ygpaPercent))
             performance == updatePerformanceText(FixedValue(ygpaPercent))
         IN  [ygpa             |-> ygpa,
              ygpaPercent      |-> ygpaPercent,
              barWidth         |-> IF isNaN(performancePercent) THEN before.barWidth
                                   ELSE performancePercent,
              congratulations  |-> showCongratulations(FixedValue(ygpaPercent)),
              performanceText  |-> performance.text,
              performanceColor |-> performance.color]
    ELSE [ygpa             |-> Placeholder,
          ygpaPercent      |-> Placeholder,
          barWidth         |-> Whole(0),
          congratulations  |-> NoCongratulations,
          performanceText  |-> "Ready to calculate...",
          performanceColor |-> before.performanceColor]

updateResultsPage ==
    LET s == ResultsSgpa(sgpaInput)
        y == ResultsYgpa(sgpaOdd, sgpaEven, results)
    IN  results' = [sgpa             |-> s.sgpa,
                    sgpaPercent      |-> s.sgpaPercent,
                    ygpa             |-> y.ygpa,
                    ygpaPercent      |-> y.ygpaPercent,
                    barWidth         |-> y.barWidth,
                    congratulations  |-> y.congratulations,
                    performanceText  |-> y.performanceText,
                    performanceColor |-> y.performanceColor]

\* a click on the navigation button of page pageName
switchPage(pageName) ==
    /\ activePage' = pageName
    /\ IF pageName = "results"
       THEN /\ views < MaxResultViews
            /\ views' = views + 1
            /\ updateResultsPage
       ELSE UNCHANGED <<results, views>>
    /\ UNCHANGED <<fields, live, scene, callVars, loopVars>>

Navigate == \E pageName \in Pages : switchPage(pageName)

\* The script with the navigation registers updateSGPACalculation on #sgpa-input
\* and no listener on #sgpa-odd and #sgpa-even: an edit of these two fields changes
\* the field's text and runs no handler.
OddTextEdit ==
    \E t \in Edits(sgpaOdd) :
        /\ sgpaOdd' = t
        /\ UNCHANGED <<sgpaInput, sgpaEven, live, scene, pageVars, callVars, loopVars>>

EvenTextEdit ==
    \E t \in Edits(sgpaEven) :
        /\ sgpaEven' = t
        /\ UNCHANGED <<sgpaInput, sgpaOdd, live, scene, pageVars, callVars, loopVars>>

\* the page with its navigation: the fields are edited until the last visit of
\* the results page that is followed
NextResults ==
    \/ views < MaxResultViews /\ SgpaInputEvent
    \/ views < MaxResultViews /\ OddTextEdit
    \/ views < MaxResultViews /\ EvenTextEdit
    \/ Navigate

SpecResults == Init /\ [][NextResults]_vars

(***************************************************************************)
(* The animation loop beside the three listeners.  The script runs on one  *)
(* thread: a callback of requestAnimationFrame and a listener start only   *)
(* when the call stack is empty.  Here a handler that computes takes two   *)
(* steps, the first ending with its assignment of rotationSpeed and the    *)
(* second starting with its assignment of scaleMultiplier; pc names the    *)
(* handler that is between the two.                                        *)
(***************************************************************************)
\* animate called whatever is on the call stack
animate_preempting ==
    /\ frame' = FrameOf(rotationSpeed, scaleMultiplier)
    /\ UNCHANGED <<fields, live, scene, pageVars, callVars, pc>>

\* one call of animate by requestAnimationFrame: every sphere's angle advances by
\* rotationSpeed on an orbit of radius 4 * scaleMultiplier
animate ==
    /\ pc = "idle"
    /\ frame' = FrameOf(rotationSpeed, scaleMultiplier)
    /\ UNCHANGED <<fields, live, scene, pageVars, callVars, pc>>

\* updateSGPACalculation from its first line to its assignment of rotationSpeed,
\* or to its return where it computes nothing
SgpaHandlerEnters(sgpa) ==
    IF Len(sgpa) = 0 \/ ~isValidGPA(sgpa)
    THEN /\ updateSGPACalculation(sgpa)
         /\ pc' = "idle"
    ELSE LET percentage == sgpaToPercentage(parseFloat(sgpa))
         IN  /\ sgpaError' = FALSE
             /\ sgpaPercentage' = toFixed2(percentage)
             /\ rotationSpeed' = RotationFor(percentage)
             /\ UNCHANGED scaleMultiplier
             /\ pc' = "updateSGPACalculation"

\* updateSGPACalculation from its assignment of scaleMultiplier to its end
SgpaHandlerReturns ==
    /\ pc = "updateSGPACalculation"
    /\ scaleMultiplier' = ScaleFor(sgpaToPercentage(parseFloat(sgpaInput)))
    /\ pc' = "idle"
    /\ UNCHANGED <<fields, live, rotationSpeed, hueShift, pageVars, callVars, frame>>

\* a text-change event of #sgpa-input starts its listener
SgpaEventDispatched ==
    /\ pc = "idle"
    /\ \E t \in Edits(sgpaInput) :
          /\ sgpaInput' = t
          /\ SgpaHandlerEnters(t)
    /\ UNCHANGED <<sgpaOdd, sgpaEven, ygpaValue, ygpaPercentage, oddError,
                   evenError, hueShift, pageVars, callVars, frame>>

\* updateYGPACalculation from its first line to its assignment of rotationSpeed,
\* or to its return where it computes nothing
YearlyHandlerEnters(odd, even) ==
    IF YearlyAbsent(odd, even)
    THEN /\ updateYGPACalculation(odd, even)
         /\ pc' = "idle"
    ELSE LET ygpa == calculateYGPA(parseFloat(odd), parseFloat(even))
             percentage == ygpaToPercentage(ygpa)
         IN  /\ oddError' = FALSE
             /\ evenError' = FALSE
             /\ ygpaValue' = toFixed2(ygpa)
             /\ ygpaPercentage' = toFixed2(percentage)
             /\ rotationSpeed' = RotationFor(percentage)
             /\ UNCHANGED <<scaleMultiplier, hueShift>>
             /\ pc' = "updateYGPACalculation"

\* updateYGPACalculation from its assignment of scaleMultiplier to its end
YearlyHandlerReturns ==
    /\ pc = "updateYGPACalculation"
    /\ LET ygpa == calculateYGPA(parseFloat(sgpaOdd), parseFloat(sgpaEven))
       IN  /\ scaleMultiplier' = ScaleFor(ygpaToPercentage(ygpa))
           /\ hueShift' = Div(ygpa, 10)
    /\ pc' = "idle"
    /\ UNCHANGED <<fields, live, rotationSpeed, pageVars, callVars, frame>>

\* a text-change event of #sgpa-odd, of #sgpa-even, starts its listener
OddEventDispatched ==
    /\ pc = "idle"
    /\ \E t \in Edits(sgpaOdd) :
          /\ sgpaOdd' = t
          /\ YearlyHandlerEnters(t, sgpaEven)
    /\ UNCHANGED <<sgpaInput, sgpaEven, sgpaPercentage, sgpaError, pageVars, callVars, frame>>

EvenEventDispatched ==
    /\ pc = "idle"
    /\ \E t \in Edits(sgpaEven) :
          /\ sgpaEven' = t
          /\ YearlyHandlerEnters(sgpaOdd, t)
    /\ UNCHANGED <<sgpaInput, sgpaOdd, sgpaPercentage, sgpaError, pageVars, callVars, frame>>

NextFrames ==
    \/ SgpaEventDispatched
    \/ SgpaHandlerReturns
    \/ OddEventDispatched
    \/ EvenEventDispatched
    \/ YearlyHandlerReturns
    \/ animate

SpecFrames == Init /\ [][NextFrames]_vars

(***************************************************************************)
(* Direct calls of the functions, on arguments drawn from bounded sets     *)
(***************************************************************************)
\* grade-points 0, ..., 10 with GridDecimals decimals
GradeGrid == {Dec(k, GridDecimals) : k \in 0..(10 * 10^GridDecimals)}
\* grade-points 0, 0.5, ..., 10
HalfGrid == {Dec(5 * k, 1) : k \in 0..20}
\* percentages -10, ..., 110 with GridDecimals decimals, and NaN
PercentGrid == {Dec(k, GridDecimals) : k \in (-10 * 10^GridDecimals)..(110 * 10^GridDecimals)}
               \cup {NaN}

Call(fn, val) ==
    /\ callRet = NotCalled
    /\ callRet' = [fn |-> fn, val |-> val]
    /\ UNCHANGED <<fields, live, scene, pageVars, callArg, loopVars>>

\* isValidGPA(raw)
InitValid == PageInit /\ callArg \in RawTexts /\ callRet = NotCalled
CallIsValidGPA == Call("isValidGPA", isValidGPA(callArg))
NextValid == CallIsValidGPA
SpecValid == InitValid /\ [][NextValid]_vars

\* sgpaToPercentage(a), ygpaToPercentage(a), calculateYGPA(a, b)
InitConv == PageInit /\ callArg \in GradeGrid \X HalfGrid /\ callRet = NotCalled
CallSgpaToPercentage == Call("sgpaToPercentage", sgpaToPercentage(callArg[1]))
CallYgpaToPercentage == Call("ygpaToPercentage", ygpaToPercentage(callArg[1]))
CallCalculateYGPA ==
    Call("calculateYGPA",
         [ygpa       |-> calculateYGPA(callArg[1], callArg[2]),
          swapped    |-> calculateYGPA(callArg[2], callArg[1]),
          percentage |-> ygpaToPercentage(calculateYGPA(callArg[1], callArg[2]))])
NextConv == CallSgpaToPercentage \/ CallYgpaToPercentage \/ CallCalculateYGPA
SpecConv == InitConv /\ [][NextConv]_vars

\* showCongratulations(p) and updatePerformanceText(p), as updateResultsPage calls them
InitBand == PageInit /\ callArg \in PercentGrid /\ callRet = NotCalled
CallBands ==
    /\ callRet = NotCalled
    /\ callRet' = [fn |-> "bands", val |-> 0]
    /\ results' = [results EXCEPT
                     !.congratulations  = showCongratulations(callArg),
                     !.performanceText  = updatePerformanceText(callArg).text,
                     !.performanceColor = updatePerformanceText(callArg).color]
    /\ UNCHANGED <<fields, live, scene, activePage, views, callArg, loopVars>>
NextBand == CallBands
SpecBand == InitBand /\ [][NextBand]_vars

\* updateYGPACalculation() and the results page, on the same texts of the two term
\* fields
InitTerms ==
    /\ sgpaInput = <<>> /\ sgpaOdd \in TermTexts /\ sgpaEven \in TermTexts
    /\ sgpaPercentage = Placeholder /\ sgpaError = FALSE
    /\ ygpaValue = Placeholder /\ ygpaPercentage = Placeholder
    /\ oddError = FALSE /\ evenError = FALSE
    /\ rotationSpeed = Dec(5, 3)
    /\ scaleMultiplier = Whole(1)
    /\ hueShift = Whole(0)
    /\ activePage = "ygpa"
    /\ results = ResultsBlank
    /\ views = 0
    /\ pc = "idle"
    /\ frame = FrameOf(Dec(5, 3), Whole(1))
    /\ callArg = <<>> /\ callRet = NotCalled
CallUpdateYGPACalculation ==
    /\ activePage = "ygpa"
    /\ updateYGPACalculation(sgpaOdd, sgpaEven)
    /\ UNCHANGED <<fields, sgpaPercentage, sgpaError, pageVars, callVars, loopVars>>
ShowResults == switchPage("results")
NextTerms == CallUpdateYGPACalculation \/ ShowResults
SpecTerms == InitTerms /\ [][NextTerms]_vars

(***************************************************************************)
(* Properties                                                              *)
(***************************************************************************)
\* x = y as fractions, whatever the form of the records
SameNumber(x, y) == ~isNaN(x) /\ ~isNaN(y) /\ x.m * 10^(y.e) = y.m * 10^(x.e)
\* 0 <= x <= 10, on the fraction itself
InRange(x) == ~isNaN(x) /\ x.m >= 0 /\ x.m <= 10 * 10^(x.e)
\* the whole of text t is one decimal numeral
WholeTextIsNumber(t) == Len(t) > 0 /\ Literal(t).used = Len(t)

\* C1: for every raw text, isValidGPA returns true if and only if the whole text
\* parses as a number and that number lies in [0, 10]; empty text, text that is no
\* number and text with trailing non-numeric characters are invalid.
C1_ValidIffWholeTextInRange ==
    callRet.fn = "isValidGPA" =>
        (callRet.val <=> (WholeTextIsNumber(callArg) /\ InRange(Literal(callArg).value)))

\* C2: for every grade-point g in [0, 10], sgpaToPercentage(g) and
\* ygpaToPercentage(g) equal (g - 0.75) * 10 exactly, with no clamping to [0, 100]:
\* 10 gives 92.5, 0 gives -7.5 and 7.5 gives 67.5.
C2_PercentageIsAffine ==
    callRet.fn \in {"sgpaToPercentage", "ygpaToPercentage"} =>
        LET g == callArg[1]
            p == callRet.val
        IN  /\ ~isNaN(p)
            \* p = (g - 75/100) * 10, cleared of denominators
            /\ p.m * 10^(g.e) * 100 = (100 * g.m - 75 * 10^(g.e)) * 10 * 10^(p.e)
            /\ (g = Whole(10) => p = Dec(925, 1))
            /\ (g = Whole(0) => p = Dec(-75, 1))
            /\ (g = Dec(75, 1) => p = Dec(675, 1))

\* C2's case: a percentage below 0 has been returned for the grade-point 0
C2_Witness ==
    /\ callRet.fn = "sgpaToPercentage"
    /\ callArg[1] = Whole(0)
    /\ callRet.val = Dec(-75, 1)

\* C10: for all valid grade-points a and b, calculateYGPA(a, b) is the mean
\* (a + b) / 2 and calculateYGPA(a, b) = calculateYGPA(b, a); calculateYGPA(8, 9) is
\* 8.5 and its percentage is 77.5.
C10_YearlyIsMeanAndCommutes ==
    callRet.fn = "calculateYGPA" =>
        LET a == callArg[1]
            b == callArg[2]
            r == callRet.val
        IN  /\ ~isNaN(r.ygpa)
            \* 2 * ygpa = a + b, cleared of denominators
            /\ 2 * r.ygpa.m * 10^(a.e) * 10^(b.e)
                  = (a.m * 10^(b.e) + b.m * 10^(a.e)) * 10^(r.ygpa.e)
            /\ r.ygpa = r.swapped
            /\ (a = Whole(8) /\ b = Whole(9)
                  => r.ygpa = Dec(85, 1) /\ r.percentage = Dec(775, 1))

\* C10's case: the yearly grade-point of 8 and 9 has been computed
C10_Witness ==
    /\ callRet.fn = "calculateYGPA"
    /\ callArg = <<Whole(8), Whole(9)>>
    /\ callRet.val.ygpa = Dec(85, 1)

\* a field's text is Valid: present and passing the validity check
Valid(t) == Len(t) > 0 /\ isValidGPA(t)
\* a field's text is Invalid: present and failing the validity check
Invalid(t) == Len(t) > 0 /\ ~isValidGPA(t)

\* C3: for the single grade-point field, after any sequence of text-change events,
\* the displayed percentage and the error indicator are determined by the current
\* text alone: Empty text gives the placeholder with the error hidden, Invalid text
\* the placeholder with the error shown, Valid text the computed percentage with
\* the error hidden.
C3_DisplayFollowsText ==
    /\ Len(sgpaInput) = 0 => sgpaPercentage = Placeholder /\ ~sgpaError
    /\ Invalid(sgpaInput) => sgpaPercentage = Placeholder /\ sgpaError
    /\ Valid(sgpaInput) =>
          /\ sgpaPercentage.kind = "fixed"
          /\ SameNumber(FixedValue(sgpaPercentage),
                        Mul(Sub(parseFloat(sgpaInput), Dec(75, 2)), 10))
          /\ ~sgpaError

\* C3's case: the field is empty again after it held the valid text 9 (the scene
\* still runs at the speed of 82.5 percent), and shows what the empty text shows
C3_Witness ==
    /\ sgpaInput = <<>> /\ sgpaOdd = <<>> /\ sgpaEven = <<>>
    /\ hueShift = Whole(0)
    /\ rotationSpeed = Dec(875, 4)
    /\ sgpaPercentage = Placeholder
    /\ ~sgpaError

\* C4: in the two-term flow, after every text-change event of either field, the
\* yearly grade-point and the yearly percentage show computed values if and only
\* if both fields are Valid; otherwise both show the placeholder.
C4_YearlyIffBothValid ==
    IF Valid(sgpaOdd) /\ Valid(sgpaEven)
    THEN /\ ygpaValue.kind = "fixed"
         /\ ygpaPercentage.kind = "fixed"
         /\ SameNumber(Mul(FixedValue(ygpaValue), 2),
                       Add(parseFloat(sgpaOdd), parseFloat(sgpaEven)))
         /\ SameNumber(FixedValue(ygpaPercentage),
                       Mul(Sub(FixedValue(ygpaValue), Dec(75, 2)), 10))
    ELSE ygpaValue = Placeholder /\ ygpaPercentage = Placeholder

\* C9: in the two-term flow, after every text-change event, each field's error
\* indicator is shown if and only if that field's own text is Invalid, whatever
\* the other field holds.
C9_OwnErrorOnly ==
    /\ oddError <=> Invalid(sgpaOdd)
    /\ evenError <=> Invalid(sgpaEven)

\* the step is a text-change event of the single field, of the two-term flow
SgpaChanged == sgpaInput' # sgpaInput
YearlyChanged == sgpaOdd' # sgpaOdd \/ sgpaEven' # sgpaEven

\* the percentage (g - 0.75) * 10 of grade-point g
PercentOf(g) == Mul(Sub(g, Dec(75, 2)), 10)
\* rotationSpeed = 0.005 + p / 1000 and scaleMultiplier = 0.8 + p / 200, cleared of
\* denominators
AnimIs(rotation, scale, p) ==
    /\ SameNumber(Mul(rotation, 1000), Add(Whole(5), p))
    /\ SameNumber(Mul(scale, 200), Add(Whole(160), p))

\* the percentages -10, -9.9, ..., 110 in increasing order
PercentStep(k) == Dec(k, 1)
\* x < y
Less(x, y) == Geq(y, x) /\ ~Geq(x, y)

\* the step is an event that ended in a Valid computation: of the single field,
\* of the two terms (the yearly figure is on display)
SgpaComputed == SgpaChanged /\ Valid(sgpaInput')
YearlyComputed ==
    YearlyChanged /\ Valid(sgpaOdd') /\ Valid(sgpaEven') /\ ygpaValue'.kind = "fixed"

\* C6: every text-change event that ends in a Valid computation, of the single
\* field or of the two terms, leaves rotationSpeed = 0.005 + p / 1000 and
\* scaleMultiplier = 0.8 + p / 200 for the percentage p it computed, and every
\* other event leaves both as they were, so that they always belong to the most
\* recent Valid computation; both increase with p.
C6_AnimationFollowsLastPercentage ==
    /\ \A k \in -100..1099 :
          /\ Less(RotationFor(PercentStep(k)), RotationFor(PercentStep(k + 1)))
          /\ Less(ScaleFor(PercentStep(k)), ScaleFor(PercentStep(k + 1)))
    /\ [][ IF SgpaComputed
           THEN \A p \in {PercentOf(parseFloat(sgpaInput'))} :
                    AnimIs(rotationSpeed', scaleMultiplier', p)
           ELSE IF YearlyComputed
           THEN \A odd \in {parseFloat(sgpaOdd')}, even \in {parseFloat(sgpaEven')} :
                \A p \in {PercentOf(Div(Add(odd, even), 2))} :
                    AnimIs(rotationSpeed', scaleMultiplier', p)
           ELSE UNCHANGED anim
         ]_vars

\* C6's case: all three fields hold valid texts, the single field's percentage is
\* 2.5 and the yearly one, computed after it, is 82.5: the parameters are those
\* of 82.5
C6_Witness ==
    /\ sgpaInput = <<"1">> /\ sgpaOdd = <<"9">> /\ sgpaEven = <<"9">>
    /\ sgpaPercentage = Fixed(250)
    /\ ygpaPercentage = Fixed(8250)
    /\ rotationSpeed = Dec(875, 4)
    /\ scaleMultiplier = Dec(12125, 4)

\* C7: a text-change event of the two-term flow that ends with the yearly result
\* in the placeholder state leaves rotationSpeed and scaleMultiplier exactly as
\* they were before the event.
C7_PlaceholderKeepsAnimation ==
    [][YearlyChanged /\ ygpaValue' = Placeholder => UNCHANGED anim]_vars

\* C7's case: the yearly result of 9 and 9 had been computed (the spheres keep its
\* hue), the odd text is Invalid now and the yearly result shows the placeholder,
\* and the parameters are still those of 82.5 percent, not the initial ones
C7_Witness ==
    /\ sgpaInput = <<>>
    /\ sgpaOdd = <<"9", "9">> /\ sgpaEven = <<"9">>
    /\ ygpaValue = Placeholder /\ oddError
    /\ hueShift = Dec(9, 1)
    /\ rotationSpeed = Dec(875, 4)
    /\ scaleMultiplier = Dec(12125, 4)

\* p >= n for a whole number n, on the fraction itself (false for NaN)
AtLeast(p, n) == ~isNaN(p) /\ p.m >= n * 10^(p.e)

\* the band of percentage p by the thresholds 90, 80, 70, 60
BandOf(p) == IF AtLeast(p, 90) THEN "outstanding"
             ELSE IF AtLeast(p, 80) THEN "excellent"
             ELSE IF AtLeast(p, 70) THEN "good"
             ELSE IF AtLeast(p, 60) THEN "satisfactory"
             ELSE "lowest"

\* the band each celebratory message and each performance text belongs to
MessageBand ==
    [outstanding  |-> "Outstanding Performance!",
     excellent    |-> "Excellent Work!",
     good         |-> "Great Job!",
     satisfactory |-> "Good Effort! Keep Improving"]
TextBand ==
    [outstanding  |-> [text |-> "Outstanding - Exceptional performance!", color |-> "#00f5ff"],
     excellent    |-> [text |-> "Excellent - Keep it up!", color |-> "#7eb3ff"],
     good         |-> [text |-> "Good - On the right track!", color |-> "#a8e6cf"],
     satisfactory |-> [text |-> "Satisfactory - Room for improvement!", color |-> "#ffd93d"],
     lowest       |-> [text |-> "Keep pushing forward!", color |-> "#ff6b6b"]]

C5_ResultsApplyValidity ==
    [][views' = views + 1 =>
          /\ IF Valid(sgpaInput')
             THEN results'.sgpa.kind = "fixed" /\ results'.sgpaPercent.kind = "fixed"
             ELSE results'.sgpa = Placeholder /\ results'.sgpaPercent = Placeholder
          /\ IF Valid(sgpaOdd') /\ Valid(sgpaEven')
             THEN results'.ygpa.kind = "fixed" /\ results'.ygpaPercent.kind = "fixed"
             ELSE /\ results'.ygpa = Placeholder
                  /\ results'.ygpaPercent = Placeholder
                  /\ results'.congratulations = NoCongratulations
                  /\ results'.performanceText = "Ready to calculate..."
      ]_vars

\* the frame drawn from the parameters the script starts with
FrameInitial == frame = FrameOf(Dec(5, 3), Whole(1))
\* the frame's two components belong to one percentage p: angleStep = 0.005 + p / 1000
\* and radius = 4 * (0.8 + p / 200), with p eliminated
FrameOfOnePercentage ==
    SameNumber(Mul(frame.radius, 50),
               Add(Whole(160), Sub(Mul(frame.angleStep, 1000), Whole(5))))

\* C11: under every interleaving of calls of animate with text-change events, the
\* handlers run to completion: every frame is drawn from a rotationSpeed and a
\* scaleMultiplier that belong to the same percentage, or from the two initial
\* values, never from one updated and one stale; a call of animate happens with no
\* handler under way, reads the two parameters as they are and writes neither.
C11_FrameReadsOnePercentage ==
    /\ [](FrameInitial \/ FrameOfOnePercentage)
    /\ [][frame' # frame =>
             /\ pc = "idle"
             /\ frame' = FrameOf(rotationSpeed, scaleMultiplier)
             /\ UNCHANGED <<rotationSpeed, scaleMultiplier, hueShift, pc>>
         ]_vars

\* C11's case: the last frame was drawn from the parameters of 82.5 percent, and
\* the single field's handler, computing 2.5 percent, has assigned rotationSpeed
\* and not yet scaleMultiplier
C11_Witness ==
    /\ pc = "updateSGPACalculation"
    /\ sgpaInput = <<"1">>
    /\ rotationSpeed = Dec(75, 4)
    /\ scaleMultiplier = Dec(12125, 4)
    /\ frame = FrameOf(Dec(875, 4), Dec(12125, 4))

\* C12: for every pair of Valid odd-term and even-term texts, the yearly
\* grade-point and the yearly percentage the results page shows are the ones
\* updateYGPACalculation shows for the same texts, numeral for numeral.
C12_ResultsAgreeWithYearly ==
    (/\ Valid(sgpaOdd) /\ Valid(sgpaEven)
     /\ ygpaValue.kind = "fixed"
     /\ activePage = "results")
    => /\ results.ygpa = ygpaValue
       /\ results.ygpaPercent = ygpaPercentage

====
